---- MODULE Spec2Model ----
(***************************************************************************)
(* B-tree set (btreeset.py).  A node is the record                         *)
(*   [leaf |-> BOOLEAN, keys |-> sequence, children |-> sequence of nodes] *)
(* where leaf = TRUE stands for "children is None".  Nodes are owned by    *)
(* exactly one parent, so the tree is modelled as a nested value and each  *)
(* in-place update of the code as the rebuilt value.  All indices are      *)
(* 0-based as in the source.                                               *)
(***************************************************************************)
EXTENDS Integers, Sequences, FiniteSets, TLC

\* ---- Bounds ----
MaxDegree == 3
MaxKey == 9
MaxCalls == 4

Degrees == 2..MaxDegree
Keys == 1..MaxKey

\* Stands for Python's None as a key bound in check_structure
None == 0

VARIABLES
    minkeys,    \* self.minkeys
    maxkeys,    \* self.maxkeys
    root,       \* self.root
    size,       \* self.size
    last,       \* the last public call: its name and outcome
    S,          \* the mathematical set run side by side
    addCalls,   \* per key: number of add(k) calls so far
    newAdds,    \* per key: number of add(k) calls since the last clear that inserted k
    removals,   \* per key: number of successful removals of k so far
    newRemovals,\* per key: number of successful removals of k since the last clear
    phase,      \* round-trip driver: "free", "add", "remove" or "done"
    pending,    \* round-trip driver: keys still to add / to remove
    lastAdd,    \* the key of the last call if it was an add, and whether the
                \* call before it was an add of the same key
    history,    \* the keys passed to add since construction, in call order
    call        \* the call just made, with the node it was made on: the method,
                \* the node before the call, the argument and what the call gave

vars == <<minkeys, maxkeys, root, size, last, S, addCalls, newAdds, removals,
          newRemovals, phase, pending, lastAdd, history, call>>

\* ---- Python list primitives, 0-based ----
At(s, i) == s[i + 1]
SetAt(s, i, x) == [s EXCEPT ![i + 1] = x]
InsertAt(s, i, x) == SubSeq(s, 1, i) \o <<x>> \o SubSeq(s, i + 1, Len(s))
RemoveAt(s, i) == SubSeq(s, 1, i) \o SubSeq(s, i + 2, Len(s))
Slice(s, a, b) == SubSeq(s, a + 1, b)

OK == "ok"

\* Bind(v, F) is F(v) with v evaluated once, before F is applied: the
\* assignment of an intermediate result to a local variable
Bind(v, F(_)) == CHOOSE r \in {F(x) : x \in {v}} : TRUE

\* ---- Node ----
Node(leaf) == [leaf |-> leaf, keys |-> <<>>, children |-> <<>>]

\* Mutant of min_keys: rounds the half up
min_keys_rounds_up == (maxkeys + 1) \div 2

min_keys == maxkeys \div 2

is_leaf(node) == node.leaf

\* Mutant of search_from: the loop stops one key early
RECURSIVE search_from_stops_early(_, _, _)
search_from_stops_early(keys, obj, i) ==
    IF i < Len(keys) - 1
    THEN IF obj = At(keys, i) THEN [found |-> TRUE, index |-> i]
         ELSE IF obj > At(keys, i) THEN search_from_stops_early(keys, obj, i + 1)
         ELSE [found |-> FALSE, index |-> i]
    ELSE [found |-> FALSE, index |-> i]

RECURSIVE search_from(_, _, _)
search_from(keys, obj, i) ==
    IF i < Len(keys)
    THEN IF obj = At(keys, i) THEN [found |-> TRUE, index |-> i]
         ELSE IF obj > At(keys, i) THEN search_from(keys, obj, i + 1)
         ELSE [found |-> FALSE, index |-> i]
    ELSE [found |-> FALSE, index |-> i]

search(node, obj) == search_from(node.keys, obj, 0)

\* Mutant of remove_key: the key is returned but stays in the node
remove_key_keeps_key(node, index) ==
    IF ~(0 <= index /\ index < Len(node.keys))
    THEN [node |-> node, key |-> None, err |-> "IndexError"]
    ELSE [node |-> node, key |-> At(node.keys, index), err |-> OK]

\* Mutant of remove_key: pops the last key whatever the index
remove_key_pops_last(node, index) ==
    IF ~(0 <= index /\ index < Len(node.keys))
    THEN [node |-> node, key |-> None, err |-> "IndexError"]
    ELSE [node |-> [node EXCEPT !.keys = RemoveAt(node.keys, Len(node.keys) - 1)],
          key |-> At(node.keys, Len(node.keys) - 1), err |-> OK]

remove_key(node, index) ==
    IF ~(0 <= index /\ index < Len(node.keys))
    THEN [node |-> node, key |-> None, err |-> "IndexError"]
    ELSE [node |-> [node EXCEPT !.keys = RemoveAt(node.keys, index)],
          key |-> At(node.keys, index), err |-> OK]

\* Mutant of remove_key_and_child: the child is not deleted
remove_key_and_child_keeps_child(node, keyindex, childindex) ==
    IF ~(0 <= keyindex /\ keyindex < Len(node.keys))
    THEN [node |-> node, key |-> None, err |-> "IndexError"]
    ELSE IF is_leaf(node)
    THEN [node |-> node, key |-> None, err |-> "ValueError"]
    ELSE IF ~(0 <= childindex /\ childindex < Len(node.children))
    THEN [node |-> node, key |-> None, err |-> "IndexError"]
    ELSE remove_key(node, keyindex)

remove_key_and_child(node, keyindex, childindex) ==
    IF ~(0 <= keyindex /\ keyindex < Len(node.keys))
    THEN [node |-> node, key |-> None, err |-> "IndexError"]
    ELSE IF is_leaf(node)
    THEN [node |-> node, key |-> None, err |-> "ValueError"]
    ELSE IF ~(0 <= childindex /\ childindex < Len(node.children))
    THEN [node |-> node, key |-> None, err |-> "IndexError"]
    ELSE remove_key([node EXCEPT !.children = RemoveAt(node.children, childindex)], keyindex)

\* Mutant of split: the median also stays in the left node
split_keeps_median(node) ==
    IF Len(node.keys) # maxkeys
    THEN [left |-> node, middlekey |-> None, right |-> node, err |-> "RuntimeError"]
    ELSE [left |-> [node EXCEPT
                       !.keys = Slice(node.keys, 0, min_keys + 1),
                       !.children = IF is_leaf(node) THEN <<>>
                                    ELSE Slice(node.children, 0, min_keys + 1)],
          middlekey |-> At(node.keys, min_keys),
          right |-> [leaf |-> is_leaf(node),
                     keys |-> Slice(node.keys, min_keys + 1, Len(node.keys)),
                     children |-> IF is_leaf(node) THEN <<>>
                                  ELSE Slice(node.children, min_keys + 1, Len(node.children))],
          err |-> OK]

\* Mutant of split: promotes the key before the median
split_promotes_wrong_key(node) ==
    IF Len(node.keys) # maxkeys
    THEN [left |-> node, middlekey |-> None, right |-> node, err |-> "RuntimeError"]
    ELSE [left |-> [node EXCEPT
                       !.keys = Slice(node.keys, 0, min_keys),
                       !.children = IF is_leaf(node) THEN <<>>
                                    ELSE Slice(node.children, 0, min_keys + 1)],
          middlekey |-> At(node.keys, min_keys - 1),
          right |-> [leaf |-> is_leaf(node),
                     keys |-> Slice(node.keys, min_keys + 1, Len(node.keys)),
                     children |-> IF is_leaf(node) THEN <<>>
                                  ELSE Slice(node.children, min_keys + 1, Len(node.children))],
          err |-> OK]

\* Mutant of split: the right node also takes the child before the median's
split_shares_child(node) ==
    IF Len(node.keys) # maxkeys
    THEN [left |-> node, middlekey |-> None, right |-> node, err |-> "RuntimeError"]
    ELSE [left |-> [node EXCEPT
                       !.keys = Slice(node.keys, 0, min_keys),
                       !.children = IF is_leaf(node) THEN <<>>
                                    ELSE Slice(node.children, 0, min_keys + 1)],
          middlekey |-> At(node.keys, min_keys),
          right |-> [leaf |-> is_leaf(node),
                     keys |-> Slice(node.keys, min_keys + 1, Len(node.keys)),
                     children |-> IF is_leaf(node) THEN <<>>
                                  ELSE Slice(node.children, min_keys, Len(node.children))],
          err |-> OK]

split(node) ==
    IF Len(node.keys) # maxkeys
    THEN [left |-> node, middlekey |-> None, right |-> node, err |-> "RuntimeError"]
    ELSE [left |-> [node EXCEPT
                       !.keys = Slice(node.keys, 0, min_keys),
                       !.children = IF is_leaf(node) THEN <<>>
                                    ELSE Slice(node.children, 0, min_keys + 1)],
          middlekey |-> At(node.keys, min_keys),
          right |-> [leaf |-> is_leaf(node),
                     keys |-> Slice(node.keys, min_keys + 1, Len(node.keys)),
                     children |-> IF is_leaf(node) THEN <<>>
                                  ELSE Slice(node.children, min_keys + 1, Len(node.children))],
          err |-> OK]

\* Mutant of merge_children: the separating key is not moved into the left child
merge_children_drops_separator(node, index) ==
    IF is_leaf(node) \/ Len(node.keys) = 0
    THEN [node |-> node, err |-> "RuntimeError"]
    ELSE LET left == At(node.children, index)
             right == At(node.children, index + 1)
         IN  IF ~(Len(left.keys) = Len(right.keys) /\ Len(right.keys) = min_keys)
             THEN [node |-> node, err |-> "RuntimeError"]
             ELSE LET r == remove_key_and_child(node, index, index + 1)
                      merged == [leaf |-> left.leaf,
                                 keys |-> left.keys \o right.keys,
                                 children |-> IF is_leaf(left) THEN <<>>
                                              ELSE left.children \o right.children]
                  IN  IF r.err # OK THEN [node |-> node, err |-> r.err]
                      ELSE [node |-> [r.node EXCEPT !.children = SetAt(r.node.children, index, merged)],
                            err |-> OK]

\* Mutant of merge_children: the right sibling's keys and children come first
merge_children_right_first(node, index) ==
    IF is_leaf(node) \/ Len(node.keys) = 0
    THEN [node |-> node, err |-> "RuntimeError"]
    ELSE LET left == At(node.children, index)
             right == At(node.children, index + 1)
         IN  IF ~(Len(left.keys) = Len(right.keys) /\ Len(right.keys) = min_keys)
             THEN [node |-> node, err |-> "RuntimeError"]
             ELSE LET r == remove_key_and_child(node, index, index + 1)
                      merged == [leaf |-> left.leaf,
                                 keys |-> right.keys \o <<r.key>> \o left.keys,
                                 children |-> right.children \o left.children]
                  IN  IF r.err # OK THEN [node |-> node, err |-> r.err]
                      ELSE [node |-> [r.node EXCEPT !.children = SetAt(r.node.children, index, merged)],
                            err |-> OK]

merge_children(node, index) ==
    IF is_leaf(node) \/ Len(node.keys) = 0
    THEN [node |-> node, err |-> "RuntimeError"]
    ELSE LET left == At(node.children, index)
             right == At(node.children, index + 1)
         IN  IF ~(Len(left.keys) = Len(right.keys) /\ Len(right.keys) = min_keys)
             THEN [node |-> node, err |-> "RuntimeError"]
             ELSE LET r == remove_key_and_child(node, index, index + 1)
                      merged == [leaf |-> left.leaf,
                                 keys |-> left.keys \o <<r.key>> \o right.keys,
                                 children |-> IF is_leaf(left) THEN <<>>
                                              ELSE left.children \o right.children]
                  IN  IF r.err # OK THEN [node |-> node, err |-> r.err]
                      ELSE [node |-> [r.node EXCEPT !.children = SetAt(r.node.children, index, merged)],
                            err |-> OK]

\* Mutant of ensure_child_remove: the right sibling is asked before the left one
ensure_child_remove_right_first(node, index) ==
    IF is_leaf(node)
    THEN [node |-> node, ret |-> index, how |-> "none", same |-> TRUE, err |-> "AssertionError"]
    ELSE
    LET child == At(node.children, index)
        hasLeft == index >= 1
        hasRight == index < Len(node.keys)
        left == At(node.children, index - 1)
        right == At(node.children, index + 1)
        internal == ~is_leaf(child)
    IN  IF Len(child.keys) > min_keys
        THEN [node |-> node, ret |-> index, how |-> "none", same |-> TRUE, err |-> OK]
        ELSE IF \/ Len(child.keys) # min_keys
                \/ ~(hasLeft \/ hasRight)
                \/ (hasLeft /\ is_leaf(left) = internal)
                \/ (hasRight /\ is_leaf(right) = internal)
        THEN [node |-> node, ret |-> index, how |-> "none", same |-> TRUE, err |-> "AssertionError"]
        ELSE IF hasRight /\ Len(right.keys) > min_keys
        THEN \* Steal leftmost item from right sibling
             LET r == remove_key(right, 0)
                 newright == [r.node EXCEPT !.children =
                                 IF internal THEN Slice(right.children, 1, Len(right.children))
                                 ELSE right.children]
                 newchild == [child EXCEPT
                                !.children = IF internal
                                             THEN child.children \o <<At(right.children, 0)>>
                                             ELSE child.children,
                                !.keys = child.keys \o <<At(node.keys, index)>>]
             IN  [node |-> [node EXCEPT
                              !.keys = SetAt(node.keys, index, r.key),
                              !.children = SetAt(SetAt(node.children, index + 1, newright), index, newchild)],
                  ret |-> index, how |-> "rotate_right", same |-> TRUE, err |-> r.err]
        ELSE IF hasLeft /\ Len(left.keys) > min_keys
        THEN \* Steal rightmost item from left sibling
             LET r == remove_key(left, Len(left.keys) - 1)
                 newleft == [r.node EXCEPT !.children =
                                IF internal THEN Slice(left.children, 0, Len(left.children) - 1)
                                ELSE left.children]
                 newchild == [child EXCEPT
                                !.children = IF internal
                                             THEN <<At(left.children, Len(left.children) - 1)>> \o child.children
                                             ELSE child.children,
                                !.keys = <<At(node.keys, index - 1)>> \o child.keys]
             IN  [node |-> [node EXCEPT
                              !.keys = SetAt(node.keys, index - 1, r.key),
                              !.children = SetAt(SetAt(node.children, index - 1, newleft), index, newchild)],
                  ret |-> index, how |-> "rotate_left", same |-> TRUE, err |-> r.err]
        ELSE IF hasLeft
        THEN \* Merge child into left sibling
             LET m == merge_children(node, index - 1)
             IN  [node |-> m.node, ret |-> index - 1, how |-> "merge_left", same |-> FALSE, err |-> m.err]
        ELSE \* Merge right sibling into child
             LET m == merge_children(node, index)
             IN  [node |-> m.node, ret |-> index, how |-> "merge_right", same |-> TRUE, err |-> m.err]

\* Result: the node after the call, ret = index (in the node after the call)
\* of the returned child, how = which branch ran, same = whether the returned
\* node is the original children[index].
ensure_child_remove(node, index) ==
    IF is_leaf(node)
    THEN [node |-> node, ret |-> index, how |-> "none", same |-> TRUE, err |-> "AssertionError"]
    ELSE
    LET child == At(node.children, index)
        hasLeft == index >= 1
        hasRight == index < Len(node.keys)
        left == At(node.children, index - 1)
        right == At(node.children, index + 1)
        internal == ~is_leaf(child)
    IN  IF Len(child.keys) > min_keys
        THEN [node |-> node, ret |-> index, how |-> "none", same |-> TRUE, err |-> OK]
        ELSE IF \/ Len(child.keys) # min_keys
                \/ ~(hasLeft \/ hasRight)
                \/ (hasLeft /\ is_leaf(left) = internal)
                \/ (hasRight /\ is_leaf(right) = internal)
        THEN [node |-> node, ret |-> index, how |-> "none", same |-> TRUE, err |-> "AssertionError"]
        ELSE IF hasLeft /\ Len(left.keys) > min_keys
        THEN \* Steal rightmost item from left sibling
             LET r == remove_key(left, Len(left.keys) - 1)
                 newleft == [r.node EXCEPT !.children =
                                IF internal THEN Slice(left.children, 0, Len(left.children) - 1)
                                ELSE left.children]
                 newchild == [child EXCEPT
                                !.children = IF internal
                                             THEN <<At(left.children, Len(left.children) - 1)>> \o child.children
                                             ELSE child.children,
                                !.keys = <<At(node.keys, index - 1)>> \o child.keys]
             IN  [node |-> [node EXCEPT
                              !.keys = SetAt(node.keys, index - 1, r.key),
                              !.children = SetAt(SetAt(node.children, index - 1, newleft), index, newchild)],
                  ret |-> index, how |-> "rotate_left", same |-> TRUE, err |-> r.err]
        ELSE IF hasRight /\ Len(right.keys) > min_keys
        THEN \* Steal leftmost item from right sibling
             LET r == remove_key(right, 0)
                 newright == [r.node EXCEPT !.children =
                                 IF internal THEN Slice(right.children, 1, Len(right.children))
                                 ELSE right.children]
                 newchild == [child EXCEPT
                                !.children = IF internal
                                             THEN child.children \o <<At(right.children, 0)>>
                                             ELSE child.children,
                                !.keys = child.keys \o <<At(node.keys, index)>>]
             IN  [node |-> [node EXCEPT
                              !.keys = SetAt(node.keys, index, r.key),
                              !.children = SetAt(SetAt(node.children, index + 1, newright), index, newchild)],
                  ret |-> index, how |-> "rotate_right", same |-> TRUE, err |-> r.err]
        ELSE IF hasLeft
        THEN \* Merge child into left sibling
             LET m == merge_children(node, index - 1)
             IN  [node |-> m.node, ret |-> index - 1, how |-> "merge_left", same |-> FALSE, err |-> m.err]
        ELSE \* Merge right sibling into child
             LET m == merge_children(node, index)
             IN  [node |-> m.node, ret |-> index, how |-> "merge_right", same |-> TRUE, err |-> m.err]

\* remove_min / remove_max: the loop over the leftmost / rightmost path.
\* Result: the subtree after the call and the key that was removed.
RECURSIVE remove_min(_)
remove_min(self) ==
    Bind(self, LAMBDA node :
    IF ~is_leaf(node)
    THEN IF ~(Len(node.keys) > min_keys)
         THEN [node |-> node, key |-> None, err |-> "AssertionError"]
         ELSE Bind(ensure_child_remove(node, 0), LAMBDA e :
              IF e.err # OK THEN [node |-> e.node, key |-> None, err |-> e.err]
              ELSE Bind(remove_min(At(e.node.children, e.ret)), LAMBDA r :
                   [node |-> [e.node EXCEPT !.children = SetAt(e.node.children, e.ret, r.node)],
                    key |-> r.key, err |-> r.err]))
    ELSE IF ~(Len(node.keys) > min_keys)
         THEN [node |-> node, key |-> None, err |-> "AssertionError"]
         ELSE remove_key(node, 0))

\* Mutant of remove_max: the leaf gives its first key
RECURSIVE remove_max_pops_first(_)
remove_max_pops_first(self) ==
    Bind(self, LAMBDA node :
    IF ~is_leaf(node)
    THEN IF ~(Len(node.keys) > min_keys)
         THEN [node |-> node, key |-> None, err |-> "AssertionError"]
         ELSE Bind(ensure_child_remove(node, Len(node.children) - 1), LAMBDA e :
              IF e.err # OK THEN [node |-> e.node, key |-> None, err |-> e.err]
              ELSE Bind(remove_max_pops_first(At(e.node.children, e.ret)), LAMBDA r :
                   [node |-> [e.node EXCEPT !.children = SetAt(e.node.children, e.ret, r.node)],
                    key |-> r.key, err |-> r.err]))
    ELSE IF ~(Len(node.keys) > min_keys)
         THEN [node |-> node, key |-> None, err |-> "AssertionError"]
         ELSE remove_key(node, 0))

RECURSIVE remove_max(_)
remove_max(self) ==
    Bind(self, LAMBDA node :
    IF ~is_leaf(node)
    THEN IF ~(Len(node.keys) > min_keys)
         THEN [node |-> node, key |-> None, err |-> "AssertionError"]
         ELSE Bind(ensure_child_remove(node, Len(node.children) - 1), LAMBDA e :
              IF e.err # OK THEN [node |-> e.node, key |-> None, err |-> e.err]
              ELSE Bind(remove_max(At(e.node.children, e.ret)), LAMBDA r :
                   [node |-> [e.node EXCEPT !.children = SetAt(e.node.children, e.ret, r.node)],
                    key |-> r.key, err |-> r.err]))
    ELSE IF ~(Len(node.keys) > min_keys)
         THEN [node |-> node, key |-> None, err |-> "AssertionError"]
         ELSE remove_key(node, Len(node.keys) - 1))

\* ---- BTreeSet ----

\* Mutant of __contains__: always descends into the first child
RECURSIVE contains_from_first_child(_, _)
contains_from_first_child(start, obj) ==
    Bind(start, LAMBDA node :
    LET s == search(node, obj)
    IN  IF s.found THEN TRUE
        ELSE IF is_leaf(node) THEN FALSE
        ELSE contains_from_first_child(At(node.children, 0), obj))

RECURSIVE contains_from(_, _)
contains_from(start, obj) ==
    Bind(start, LAMBDA node :
    LET s == search(node, obj)
    IN  IF s.found THEN TRUE
        ELSE IF is_leaf(node) THEN FALSE
        ELSE contains_from(At(node.children, s.index), obj))

contains(obj) == contains_from(root, obj)

\* The walk of add from one node down.  stop = where the call returned:
\* "found_internal" / "found_leaf" (line 85), "median" (line 98), "inserted" (line 90).
RECURSIVE add_walk(_, _, _)
add_walk(start, isroot, obj) ==
    Bind(start, LAMBDA node :
    IF ~(Len(node.keys) < maxkeys) \/ ~(isroot \/ Len(node.keys) >= minkeys)
    THEN [node |-> node, added |-> FALSE, stop |-> "assert", err |-> "AssertionError"]
    ELSE
    Bind(search(node, obj), LAMBDA s :
    LET index == s.index
    IN  IF s.found
        THEN [node |-> node, added |-> FALSE,
              stop |-> IF is_leaf(node) THEN "found_leaf" ELSE "found_internal", err |-> OK]
        ELSE IF is_leaf(node)
        THEN [node |-> [node EXCEPT !.keys = InsertAt(node.keys, index, obj)],
              added |-> TRUE, stop |-> "inserted", err |-> OK]
        ELSE LET child == At(node.children, index)
             IN  IF Len(child.keys) = maxkeys
                 THEN Bind(split(child), LAMBDA sp :
                      LET node2 == [node EXCEPT
                                      !.children = InsertAt(SetAt(node.children, index, sp.left),
                                                            index + 1, sp.right),
                                      !.keys = InsertAt(node.keys, index, sp.middlekey)]
                      IN  IF sp.err # OK
                          THEN [node |-> node, added |-> FALSE, stop |-> "assert", err |-> sp.err]
                          ELSE IF obj = sp.middlekey
                          THEN [node |-> node2, added |-> FALSE, stop |-> "median", err |-> OK]
                          ELSE LET at == IF obj > sp.middlekey THEN index + 1 ELSE index
                               IN  Bind(add_walk(At(node2.children, at), FALSE, obj), LAMBDA r :
                                   [r EXCEPT !.node = [node2 EXCEPT !.children =
                                                          SetAt(node2.children, at, r.node)]]))
                 ELSE Bind(add_walk(child, FALSE, obj), LAMBDA r :
                      [r EXCEPT !.node = [node EXCEPT !.children =
                                             SetAt(node.children, index, r.node)]])))

\* Mutant of add: a full root is not split before the walk
add_without_root_split(obj) ==
    Bind(add_walk(root, TRUE, obj), LAMBDA r :
    [root |-> r.node, size |-> IF r.added THEN size + 1 ELSE size,
     added |-> r.added, stop |-> r.stop, err |-> r.err])

\* add(obj): the new root, the new size and the outcome
add(obj) ==
    IF Len(root.keys) = maxkeys
    THEN Bind(split(root), LAMBDA sp :
         IF sp.err # OK
         THEN [root |-> root, size |-> size, added |-> FALSE, stop |-> "assert", err |-> sp.err]
         ELSE Bind(add_walk([leaf |-> FALSE, keys |-> <<sp.middlekey>>,
                             children |-> <<sp.left, sp.right>>], TRUE, obj), LAMBDA r :
              [root |-> r.node, size |-> IF r.added THEN size + 1 ELSE size,
               added |-> r.added, stop |-> r.stop, err |-> r.err]))
    ELSE Bind(add_walk(root, TRUE, obj), LAMBDA r :
         [root |-> r.node, size |-> IF r.added THEN size + 1 ELSE size,
          added |-> r.added, stop |-> r.stop, err |-> r.err])

\* The walk of _remove from one node down, entered with the search result
\* (found, index) of that node.
RECURSIVE remove_walk(_, _, _, _, _)
remove_walk(start, isroot, found, at, obj) ==
    Bind(start, LAMBDA node :
    Bind(at, LAMBDA index :
    IF ~(Len(node.keys) <= maxkeys) \/ ~(isroot \/ Len(node.keys) > minkeys)
    THEN [node |-> node, removed |-> FALSE, err |-> "AssertionError"]
    ELSE IF is_leaf(node)
    THEN IF found
         THEN LET r == remove_key(node, index)
              IN  [node |-> r.node, removed |-> r.err = OK, err |-> r.err]
         ELSE [node |-> node, removed |-> FALSE, err |-> OK]
    ELSE IF found
    THEN LET left == At(node.children, index)
             right == At(node.children, index + 1)
         IN  IF Len(left.keys) > minkeys
             THEN \* Replace key with predecessor
                  Bind(remove_max(left), LAMBDA r :
                  [node |-> [node EXCEPT !.keys = SetAt(node.keys, index, r.key),
                                         !.children = SetAt(node.children, index, r.node)],
                   removed |-> r.err = OK, err |-> r.err])
             ELSE IF Len(right.keys) > minkeys
             THEN Bind(remove_min(right), LAMBDA r :
                  [node |-> [node EXCEPT !.keys = SetAt(node.keys, index, r.key),
                                         !.children = SetAt(node.children, index + 1, r.node)],
                   removed |-> r.err = OK, err |-> r.err])
             ELSE \* Merge key and right node into left node, then recurse
                  Bind(merge_children(node, index), LAMBDA m :
                  IF m.err # OK
                  THEN [node |-> m.node, removed |-> FALSE, err |-> m.err]
                  ELSE IF isroot /\ Len(m.node.keys) = 0
                  THEN \* Decrement tree height: the merged node is the root
                       remove_walk(At(m.node.children, index), TRUE, TRUE, minkeys, obj)
                  ELSE Bind(remove_walk(At(m.node.children, index), FALSE, TRUE, minkeys, obj),
                            LAMBDA r :
                       [r EXCEPT !.node = [m.node EXCEPT !.children =
                                              SetAt(m.node.children, index, r.node)]]))
    ELSE \* Key might be found in some child
         Bind(ensure_child_remove(node, index), LAMBDA e :
         IF e.err # OK
         THEN [node |-> e.node, removed |-> FALSE, err |-> e.err]
         ELSE Bind(At(e.node.children, e.ret), LAMBDA child :
              Bind(search(child, obj), LAMBDA s :
              IF isroot /\ Len(e.node.keys) = 0
              THEN \* Decrement tree height: root.children[0], which is child, is the root
                   remove_walk(child, TRUE, s.found, s.index, obj)
              ELSE Bind(remove_walk(child, FALSE, s.found, s.index, obj), LAMBDA r :
                   [r EXCEPT !.node = [e.node EXCEPT !.children =
                                          SetAt(e.node.children, e.ret, r.node)]]))))))

\* Mutant of _remove: the root is not replaced when the walk lowers the tree
remove_impl_keeps_root(obj) ==
    Bind(search(root, obj), LAMBDA s :
    Bind(remove_walk(root, TRUE, s.found, s.index, obj), LAMBDA r :
    [root |-> IF Len(root.keys) = 1 /\ merge_children(root, 0).err = OK
              THEN [leaf |-> FALSE, keys |-> <<>>, children |-> <<r.node>>]
              ELSE r.node,
     size |-> IF r.removed THEN size - 1 ELSE size,
     removed |-> r.removed, err |-> r.err]))

\* Mutant of _remove: the size is not decremented
remove_impl_keeps_size(obj) ==
    Bind(search(root, obj), LAMBDA s :
    Bind(remove_walk(root, TRUE, s.found, s.index, obj), LAMBDA r :
    [root |-> r.node, size |-> size, removed |-> r.removed, err |-> r.err]))

\* _remove(obj): the new root, the new size and whether an object was removed
remove_impl(obj) ==
    Bind(search(root, obj), LAMBDA s :
    Bind(remove_walk(root, TRUE, s.found, s.index, obj), LAMBDA r :
    [root |-> r.node, size |-> IF r.removed THEN size - 1 ELSE size,
     removed |-> r.removed, err |-> r.err]))

\* Mutant of push_left_path: follows the last child
RECURSIVE push_left_path_last_child(_, _)
push_left_path_last_child(stack, node) ==
    LET st == Append(stack, [node |-> node, index |-> 0])
    IN  IF is_leaf(node) THEN st
        ELSE push_left_path_last_child(st, At(node.children, Len(node.children) - 1))

\* __iter__: the explicit stack holds frames [node, index]
RECURSIVE push_left_path(_, _)
push_left_path(stack, node) ==
    LET st == Append(stack, [node |-> node, index |-> 0])
    IN  IF is_leaf(node) THEN st ELSE push_left_path(st, At(node.children, 0))

\* Mutant of the generator loop: the incremented frame is not pushed back
iter_step_no_push_back(stack, out) ==
    LET top == stack[Len(stack)]
        rest == SubSeq(stack, 1, Len(stack) - 1)
        node == top.node
    IN  IF is_leaf(node)
        THEN [stack |-> rest, out |-> out \o node.keys]
        ELSE LET index == top.index + 1
             IN  [stack |-> push_left_path(rest, At(node.children, index)),
                  out |-> Append(out, At(node.keys, top.index))]

\* One pass of the generator's while loop: pops a frame, yields, pushes
iter_step(stack, out) ==
    LET top == stack[Len(stack)]
        rest == SubSeq(stack, 1, Len(stack) - 1)
        node == top.node
    IN  IF is_leaf(node)
        THEN [stack |-> rest, out |-> out \o node.keys]
        ELSE LET index == top.index + 1
                 st == IF index < Len(node.keys)
                       THEN Append(rest, [node |-> node, index |-> index])
                       ELSE rest
             IN  [stack |-> push_left_path(st, At(node.children, index)),
                  out |-> Append(out, At(node.keys, top.index))]

\* The generator loop, run to exhaustion: out collects the yielded keys.
\* fuel bounds the number of passes, done tells that the stack ran empty.
\* (The pass is bound to a value by the set constructor so that it is
\* evaluated once.)
RECURSIVE iter_loop(_, _, _)
iter_loop(stack, out, fuel) ==
    IF Len(stack) > 0
    THEN IF fuel = 0 THEN [out |-> out, done |-> FALSE]
         ELSE CHOOSE r \in {iter_loop(n.stack, n.out, fuel - 1) : n \in {iter_step(stack, out)}} : TRUE
    ELSE [out |-> out, done |-> TRUE]

IterFuel == 2 * MaxKey + 2

iterate == iter_loop(push_left_path(<<>>, root), <<>>, IterFuel)

\* ---- check_structure ----
Failed == -1

\* Node.check_structure: the number of keys of the subtree, or Failed where
\* the code raises.  check_children is its loop over the children from
\* index i on, adding their counts to count.
RECURSIVE node_check_structure(_, _, _, _, _)
RECURSIVE check_children(_, _, _, _, _)
node_check_structure(node, isroot, leafdepth, min, max) ==
    LET keys == node.keys
        numkeys == Len(keys)
        tempkeys == <<min>> \o keys \o <<max>>
    IN  IF is_leaf(node) # (leafdepth = 0) THEN Failed
        ELSE IF numkeys > maxkeys THEN Failed
        ELSE IF isroot /\ ~is_leaf(node) /\ numkeys = 0 THEN Failed
        ELSE IF ~isroot /\ numkeys < min_keys THEN Failed
        ELSE IF \E i \in 0..(Len(tempkeys) - 2) :
                    /\ At(tempkeys, i) # None
                    /\ At(tempkeys, i + 1) # None
                    /\ At(tempkeys, i + 1) <= At(tempkeys, i)
        THEN Failed
        ELSE IF is_leaf(node) THEN numkeys
        ELSE IF Len(node.children) # numkeys + 1 THEN Failed
        ELSE check_children(node, leafdepth, tempkeys, 0, numkeys)

check_children(node, leafdepth, tempkeys, i, count) ==
    IF i >= Len(node.children) THEN count
    ELSE \* the set constructor binds the child's count to a value
         CHOOSE r \in {IF c = Failed THEN Failed
                       ELSE check_children(node, leafdepth, tempkeys, i + 1, count + c) :
                       c \in {node_check_structure(At(node.children, i), FALSE, leafdepth - 1,
                                                   At(tempkeys, i), At(tempkeys, i + 1))}} : TRUE

\* Height by descending into one branch
RECURSIVE height_of(_)
height_of(node) == IF is_leaf(node) THEN 0 ELSE 1 + height_of(At(node.children, 0))

\* BTreeSet.check_structure: TRUE when it returns, FALSE when it raises
check_structure ==
    IF \/ size < 0
       \/ (size > maxkeys /\ is_leaf(root))
       \/ (size <= minkeys * 2 /\ (~is_leaf(root) \/ Len(root.keys) # size))
    THEN FALSE
    ELSE node_check_structure(root, TRUE, height_of(root), None, None) = size

\* ---- The public calls ----
Zeros == [k \in Keys |-> 0]

NoAdd == [key |-> None, rep |-> FALSE]

NoCall == [method |-> "none", node |-> Node(TRUE), index |-> None]

\* __init__(degree) followed by clear(); coll is None
Construct(degree) ==
    /\ minkeys = degree - 1
    /\ maxkeys = degree * 2 - 1
    /\ root = Node(TRUE)
    /\ size = 0
    /\ last = [op |-> "init", err |-> OK, res |-> "none", moved |-> FALSE]
    /\ S = {}
    /\ addCalls = Zeros /\ newAdds = Zeros /\ removals = Zeros /\ newRemovals = Zeros
    /\ lastAdd = NoAdd
    /\ history = <<>>
    /\ call = NoCall

\* last records the call just made: op, err = the exception it raised (OK for
\* none), res = how it ended, moved = a remove or discard that removed nothing
\* left a tree other than the one before the call
DoAdd(k) ==
    \E r \in {add(k)} :
        /\ root' = r.root
        /\ size' = r.size
        /\ last' = [op |-> "add", err |-> r.err, res |-> r.stop, moved |-> FALSE]
        /\ S' = S \cup {k}
        /\ UNCHANGED <<minkeys, maxkeys>>

\* remove(obj): KeyError when _remove returns False
DoRemove(k) ==
    \E r \in {remove_impl(k)} :
        /\ root' = r.root
        /\ size' = r.size
        /\ last' = [op |-> "remove",
                    err |-> IF r.err # OK THEN r.err
                            ELSE IF ~r.removed THEN "KeyError" ELSE OK,
                    res |-> IF r.removed THEN "removed" ELSE "absent",
                    moved |-> ~r.removed /\ r.root # root]
        /\ S' = S \ {k}
        /\ UNCHANGED <<minkeys, maxkeys>>

DoDiscard(k) ==
    \E r \in {remove_impl(k)} :
        /\ root' = r.root
        /\ size' = r.size
        /\ last' = [op |-> "discard", err |-> r.err,
                    res |-> IF r.removed THEN "removed" ELSE "absent",
                    moved |-> ~r.removed /\ r.root # root]
        /\ S' = S \ {k}
        /\ UNCHANGED <<minkeys, maxkeys>>

DoClear ==
    /\ root' = Node(TRUE)
    /\ size' = 0
    /\ last' = [op |-> "clear", err |-> OK, res |-> "none", moved |-> FALSE]
    /\ S' = {}
    /\ UNCHANGED <<minkeys, maxkeys>>

\* ---- Spec: any sequence of calls ----
Init ==
    /\ \E degree \in Degrees : Construct(degree)
    /\ phase = "free"
    /\ pending = {}

Add(k) ==
    /\ DoAdd(k)
    /\ UNCHANGED <<addCalls, newAdds, removals, newRemovals, phase, pending, lastAdd, history, call>>

Remove(k) ==
    /\ DoRemove(k)
    /\ UNCHANGED <<addCalls, newAdds, removals, newRemovals, phase, pending, lastAdd, history, call>>

Discard(k) ==
    /\ DoDiscard(k)
    /\ UNCHANGED <<addCalls, newAdds, removals, newRemovals, phase, pending, lastAdd, history, call>>

Clear ==
    /\ DoClear
    /\ UNCHANGED <<addCalls, newAdds, removals, newRemovals, phase, pending, lastAdd, history, call>>

Next ==
    \/ \E k \in Keys : Add(k)
    \/ \E k \in Keys : Remove(k)
    \/ \E k \in Keys : Discard(k)
    \/ Clear

Spec == Init /\ [][Next]_vars

\* ---- SpecCount: the calls are counted per key ----
MaxCountKey == 3
CountKeys == 1..MaxCountKey

Bump(f, k, yes) == IF yes THEN [f EXCEPT ![k] = @ + 1] ELSE f

RECURSIVE Total(_, _)
Total(f, n) == IF n = 0 THEN 0 ELSE f[n] + Total(f, n - 1)

\* at most MaxCalls calls of add in all
CountedAdd(k) ==
    /\ Total(addCalls, MaxCountKey) < MaxCalls
    /\ DoAdd(k)
    /\ addCalls' = Bump(addCalls, k, TRUE)
    /\ newAdds' = Bump(newAdds, k, add(k).added)
    /\ UNCHANGED <<removals, newRemovals, phase, pending, lastAdd, history, call>>

CountedRemove(k) ==
    /\ DoRemove(k)
    /\ removals' = Bump(removals, k, remove_impl(k).removed)
    /\ newRemovals' = Bump(newRemovals, k, remove_impl(k).removed)
    /\ UNCHANGED <<addCalls, newAdds, phase, pending, lastAdd, history, call>>

CountedDiscard(k) ==
    /\ DoDiscard(k)
    /\ removals' = Bump(removals, k, remove_impl(k).removed)
    /\ newRemovals' = Bump(newRemovals, k, remove_impl(k).removed)
    /\ UNCHANGED <<addCalls, newAdds, phase, pending, lastAdd, history, call>>

CountedClear ==
    /\ DoClear
    /\ newAdds' = Zeros
    /\ newRemovals' = Zeros
    /\ UNCHANGED <<addCalls, removals, phase, pending, lastAdd, history, call>>

NextCount ==
    \/ \E k \in CountKeys : CountedAdd(k)
    \/ \E k \in CountKeys : CountedRemove(k)
    \/ \E k \in CountKeys : CountedDiscard(k)
    \/ CountedClear

SpecCount == Init /\ [][NextCount]_vars

\* ---- SpecTwice: any sequence of calls, remembering the key last added ----
MaxTwiceKey == 7
TwiceKeys == 1..MaxTwiceKey

TwiceAdd(k) ==
    /\ DoAdd(k)
    /\ lastAdd' = [key |-> k, rep |-> lastAdd.key = k]
    /\ UNCHANGED <<addCalls, newAdds, removals, newRemovals, phase, pending, history, call>>

TwiceRemove(k) ==
    /\ DoRemove(k)
    /\ lastAdd' = NoAdd
    /\ UNCHANGED <<addCalls, newAdds, removals, newRemovals, phase, pending, history, call>>

TwiceDiscard(k) ==
    /\ DoDiscard(k)
    /\ lastAdd' = NoAdd
    /\ UNCHANGED <<addCalls, newAdds, removals, newRemovals, phase, pending, history, call>>

TwiceClear ==
    /\ DoClear
    /\ lastAdd' = NoAdd
    /\ UNCHANGED <<addCalls, newAdds, removals, newRemovals, phase, pending, history, call>>

NextTwice ==
    \/ \E k \in TwiceKeys : TwiceAdd(k)
    \/ \E k \in TwiceKeys : TwiceRemove(k)
    \/ \E k \in TwiceKeys : TwiceDiscard(k)
    \/ TwiceClear

SpecTwice == Init /\ [][NextTwice]_vars

\* ---- SpecRoundTrip: add a key set in any order, then remove it in any order ----
MaxRoundTripKey == 8
RoundTripKeys == 1..MaxRoundTripKey

InitRoundTrip ==
    /\ \E degree \in Degrees : Construct(degree)
    /\ phase = "add"
    /\ pending \in (SUBSET RoundTripKeys) \ {{}}

RoundTripAdd(k) ==
    /\ phase = "add"
    /\ k \in pending
    /\ DoAdd(k)
    /\ IF pending = {k}
       THEN phase' = "remove" /\ pending' = S \cup {k}
       ELSE phase' = "add" /\ pending' = pending \ {k}
    /\ UNCHANGED <<addCalls, newAdds, removals, newRemovals, lastAdd, history, call>>

RoundTripRemove(k) ==
    /\ phase = "remove"
    /\ k \in pending
    /\ DoRemove(k)
    /\ pending' = pending \ {k}
    /\ phase' = IF pending = {k} THEN "done" ELSE "remove"
    /\ UNCHANGED <<addCalls, newAdds, removals, newRemovals, lastAdd, history, call>>

NextRoundTrip ==
    \/ \E k \in RoundTripKeys : RoundTripAdd(k)
    \/ \E k \in RoundTripKeys : RoundTripRemove(k)

SpecRoundTrip == InitRoundTrip /\ [][NextRoundTrip]_vars

\* ---- SpecOrder: distinct keys added in any order, the order remembered ----
MaxOrderKey == 7
OrderKeys == 1..MaxOrderKey

OrderAdd(k) ==
    /\ k \notin S
    /\ DoAdd(k)
    /\ history' = Append(history, k)
    /\ UNCHANGED <<addCalls, newAdds, removals, newRemovals, phase, pending, lastAdd, call>>

OrderClear ==
    /\ DoClear
    /\ history' = <<>>
    /\ UNCHANGED <<addCalls, newAdds, removals, newRemovals, phase, pending, lastAdd, call>>

NextOrder ==
    \/ \E k \in OrderKeys : OrderAdd(k)
    \/ OrderClear

SpecOrder == Init /\ [][NextOrder]_vars

\* ---- SpecTrace: any sequence of calls, each remembered with the root it met ----
MaxTraceKey == 8
TraceKeys == 1..MaxTraceKey

TraceAdd(k) ==
    /\ DoAdd(k)
    /\ call' = [method |-> "add", node |-> root, index |-> k]
    /\ UNCHANGED <<addCalls, newAdds, removals, newRemovals, phase, pending, lastAdd, history>>

TraceRemove(k) ==
    /\ DoRemove(k)
    /\ call' = [method |-> "remove", node |-> root, index |-> k]
    /\ UNCHANGED <<addCalls, newAdds, removals, newRemovals, phase, pending, lastAdd, history>>

TraceDiscard(k) ==
    /\ DoDiscard(k)
    /\ call' = [method |-> "discard", node |-> root, index |-> k]
    /\ UNCHANGED <<addCalls, newAdds, removals, newRemovals, phase, pending, lastAdd, history>>

TraceClear ==
    /\ DoClear
    /\ call' = [method |-> "clear", node |-> root, index |-> None]
    /\ UNCHANGED <<addCalls, newAdds, removals, newRemovals, phase, pending, lastAdd, history>>

NextTrace ==
    \/ \E k \in TraceKeys : TraceAdd(k)
    \/ \E k \in TraceKeys : TraceRemove(k)
    \/ \E k \in TraceKeys : TraceDiscard(k)
    \/ TraceClear

SpecTrace == Init /\ [][NextTrace]_vars

\* ---- SpecNode: a tree is built, then one Node method is called on one of its nodes ----
MaxNodeKey == 9
NodeKeys == 1..MaxNodeKey

\* The nodes of the subtree rooted at node
RECURSIVE NodesOf(_)
NodesOf(node) ==
    {node} \cup (IF is_leaf(node) THEN {}
                 ELSE UNION {NodesOf(node.children[i]) : i \in 1..Len(node.children)})

\* The nodes that a removal can be at: the root, and the nodes below it that
\* hold more than minkeys keys (lines 120, 243, 253)
Enterable(node) == node = root \/ Len(node.keys) > minkeys

NodeAdd(k) ==
    /\ call.method = "none"
    /\ DoAdd(k)
    /\ UNCHANGED <<addCalls, newAdds, removals, newRemovals, phase, pending, lastAdd, history, call>>

NodeRemove(k) ==
    /\ call.method = "none"
    /\ DoRemove(k)
    /\ UNCHANGED <<addCalls, newAdds, removals, newRemovals, phase, pending, lastAdd, history, call>>

\* node.split(), on any node of the tree
CallSplit ==
    /\ call.method = "none"
    /\ \E node \in NodesOf(root) :
           call' = [method |-> "split", node |-> node, index |-> None, isroot |-> node = root,
                    result |-> split(node)]
    /\ UNCHANGED <<minkeys, maxkeys, root, size, last, S, addCalls, newAdds, removals,
                   newRemovals, phase, pending, lastAdd, history>>

\* node.merge_children(index), on any node of the tree and on an internal
\* node emptied of its keys
CallMergeChildren ==
    /\ call.method = "none"
    /\ \E n \in NodesOf(root) :
       \E node \in {n, [n EXCEPT !.keys = <<>>]} :
       \E index \in 0..(Len(n.keys) - 1) :
           call' = [method |-> "merge_children", node |-> node, index |-> index,
                    isroot |-> n = root, result |-> merge_children(node, index)]
    /\ UNCHANGED <<minkeys, maxkeys, root, size, last, S, addCalls, newAdds, removals,
                   newRemovals, phase, pending, lastAdd, history>>

\* node.ensure_child_remove(index), on any internal node a removal can be at
CallEnsureChildRemove ==
    /\ call.method = "none"
    /\ \E node \in NodesOf(root) :
       \E index \in 0..Len(node.keys) :
           /\ ~is_leaf(node) /\ Enterable(node)
           /\ call' = [method |-> "ensure_child_remove", node |-> node, index |-> index,
                       isroot |-> node = root, result |-> ensure_child_remove(node, index)]
    /\ UNCHANGED <<minkeys, maxkeys, root, size, last, S, addCalls, newAdds, removals,
                   newRemovals, phase, pending, lastAdd, history>>

\* The pass of _remove's loop that is at an internal node and has found the
\* key at index, run to the end of the call
CallRemoveFound ==
    /\ call.method = "none"
    /\ \E node \in NodesOf(root) :
       \E index \in 0..(Len(node.keys) - 1) :
           /\ ~is_leaf(node) /\ Enterable(node)
           /\ call' = [method |-> "_remove", node |-> node, index |-> index,
                       isroot |-> node = root,
                       result |-> remove_walk(node, node = root, TRUE, index,
                                              At(node.keys, index))]
    /\ UNCHANGED <<minkeys, maxkeys, root, size, last, S, addCalls, newAdds, removals,
                   newRemovals, phase, pending, lastAdd, history>>

NextNode ==
    \/ \E k \in NodeKeys : NodeAdd(k)
    \/ \E k \in NodeKeys : NodeRemove(k)
    \/ CallSplit
    \/ CallMergeChildren
    \/ CallEnsureChildRemove
    \/ CallRemoveFound

SpecNode == Init /\ [][NextNode]_vars

\* ---- Properties ----

\* The keys of a subtree in order, by structural recursion
RECURSIVE InOrder(_)
InOrder(node) ==
    IF is_leaf(node) THEN node.keys
    ELSE LET RECURSIVE walk(_)
             walk(i) == IF i > Len(node.children) THEN <<>>
                        ELSE InOrder(node.children[i])
                             \o (IF i <= Len(node.keys) THEN <<node.keys[i]>> ELSE <<>>)
                             \o walk(i + 1)
         IN  walk(1)

RECURSIVE LeafDepths(_, _)
LeafDepths(node, d) ==
    IF is_leaf(node) THEN {d}
    ELSE UNION {LeafDepths(node.children[i], d + 1) : i \in 1..Len(node.children)}

\* Every node below the root has between minkeys and maxkeys keys, an internal
\* root has a key, and every internal node has one more child than keys
RECURSIVE NodeSizesOK(_, _)
NodeSizesOK(node, isroot) ==
    /\ Len(node.keys) <= maxkeys
    /\ isroot \/ Len(node.keys) >= minkeys
    /\ (isroot /\ ~is_leaf(node)) => Len(node.keys) >= 1
    /\ is_leaf(node) \/
         /\ Len(node.children) = Len(node.keys) + 1
         /\ \A i \in 1..Len(node.children) : NodeSizesOK(node.children[i], FALSE)

\* Keys are strictly increasing in each node and lie strictly between the
\* bounds inherited from the parent (None = no bound)
RECURSIVE KeysWithin(_, _, _)
KeysWithin(node, lo, hi) ==
    /\ \A i \in 1..Len(node.keys) :
         /\ lo = None \/ lo < node.keys[i]
         /\ hi = None \/ node.keys[i] < hi
         /\ i = Len(node.keys) \/ node.keys[i] < node.keys[i + 1]
    /\ is_leaf(node) \/
         \A i \in 1..Len(node.children) :
             KeysWithin(node.children[i],
                        IF i = 1 THEN lo ELSE node.keys[i - 1],
                        IF i > Len(node.keys) THEN hi ELSE node.keys[i])

StrictlyIncreasing(s) == \A i \in 1..(Len(s) - 1) : s[i] < s[i + 1]

Members == {k \in Keys : contains(k)}

Observables == <<size, Members, iterate.out>>

\* In the step properties below the step of a call is named by its action;
\* the conjuncts before the action repeat its conjuncts about last and S,
\* which decide most steps without running the call again.

\* C1: after every call check_structure() succeeds: all leaves are at the
\* same depth, node sizes and child counts are within their limits, keys are
\* strictly increasing within the inherited bounds, and size is the number of
\* keys reachable from the root.
StructureValid ==
    /\ check_structure
    /\ Cardinality(LeafDepths(root, 0)) = 1
    /\ NodeSizesOK(root, TRUE)
    /\ KeysWithin(root, None, None)
    /\ size = Len(InOrder(root))

\* a removal has just succeeded in a tree that still has two levels of
\* internal nodes
StructureValidWitness ==
    /\ last.op = "remove" /\ last.res = "removed"
    /\ height_of(root) = 2

\* C2 as stated: contains(k) exactly when add(k) calls minus successful
\* removals of k is positive.
MembershipByAllCalls ==
    \A k \in CountKeys : contains(k) <=> (addCalls[k] - removals[k] > 0)

\* C2 amended: contains(k) exactly when, counting since the last clear, the
\* add(k) calls that inserted k minus the successful removals of k is positive.
MembershipByInsertingCalls ==
    \A k \in CountKeys : contains(k) <=> (newAdds[k] - newRemovals[k] > 0)

\* a key added twice and removed once is absent
MembershipWitness ==
    \E k \in CountKeys : /\ addCalls[k] = 2 /\ removals[k] = 1
                         /\ newAdds[k] = 1 /\ newRemovals[k] = 1
                         /\ ~contains(k) /\ size >= 2

\* C3: the tree refines the mathematical set S: same members, same
\* cardinality, and add(k) grows size by exactly one exactly when k was not
\* in S before the call (and otherwise leaves size alone).
RefinesSet ==
    /\ [](Members = S /\ size = Cardinality(S))
    /\ [][\A k \in Keys : (last'.op = "add" /\ S' = S \cup {k} /\ Add(k)) =>
            /\ (size' = size + 1) <=> (k \notin S)
            /\ size' = size + 1 \/ size' = size]_vars

\* a new key has gone into a tree with two levels of internal nodes
RefinesSetWitness ==
    /\ last.op = "add" /\ last.res = "inserted"
    /\ height_of(root) = 2 /\ size = Cardinality(S) /\ Members = S

\* C4: a full iteration terminates and yields exactly size() keys.
IterationCount == iterate.done /\ Len(iterate.out) = size

IterationCountWitness ==
    height_of(root) = 2 /\ size = MaxKey /\ Len(iterate.out) = size

\* C5: the iteration yields strictly increasing keys.
IterationOrdered == StrictlyIncreasing(iterate.out)

IterationOrderedWitness ==
    /\ height_of(root) = 2 /\ Len(iterate.out) >= 8
    /\ last.op = "discard" /\ last.res = "removed"

\* C6: remove(k) raises KeyError exactly when k is not in the set at the
\* time of the call, and then size, membership and iteration are unchanged
\* and check_structure() succeeds.
RemoveAbsentRaises ==
    [][last'.op = "remove" =>
         /\ \A k \in Keys : (S' = S \ {k} /\ Remove(k)) =>
                ((last'.err = "KeyError") <=> ~contains(k))
         /\ last'.err = "KeyError" =>
              /\ Observables' = Observables
              /\ check_structure']_vars

\* a failed remove whose descent has reshaped the tree
RemoveAbsentRaisesWitness ==
    last.op = "remove" /\ last.err = "KeyError" /\ last.moved /\ size >= 8

\* C7: discard(k) of an absent key raises nothing and changes neither size,
\* membership nor iteration, and check_structure() succeeds.
DiscardAbsentNoEffect ==
    [][(/\ last'.op = "discard"
        /\ \E k \in Keys : ~contains(k) /\ S' = S \ {k} /\ Discard(k)) =>
         /\ last'.err = OK
         /\ Observables' = Observables
         /\ check_structure']_vars

\* a discard that removed nothing and whose descent has reshaped the tree
DiscardAbsentNoEffectWitness ==
    /\ last.op = "discard" /\ last.res = "absent" /\ last.err = OK
    /\ last.moved /\ size >= 8

\* C8: add(k) right after add(k) changes neither size, membership nor
\* iteration, wherever the second call returns.
AddTwiceSame ==
    [][\A k \in TwiceKeys : (lastAdd.key = k /\ lastAdd'.key = k /\ TwiceAdd(k)) =>
         Observables' = Observables]_vars

\* the second add(k) returned at the median promoted by a split
AddTwiceSameWitness ==
    last.op = "add" /\ lastAdd.rep /\ last.res = "median"

\* C9: once all keys of K were added and then all removed, in any orders,
\* size() is 0, the root is a leaf without keys and check_structure() succeeds.
RoundTripEmpties ==
    phase = "done" =>
        /\ size = 0
        /\ is_leaf(root) /\ Len(root.keys) = 0
        /\ check_structure

RoundTripEmptiesWitness ==
    phase = "done" /\ size = 0 /\ last.op = "remove" /\ last.res = "removed" /\ S = {}

\* C10: no call trips an assertion or a precondition of split,
\* merge_children or remove_key; the only error is the KeyError of remove.
NoInternalError ==
    /\ last.err \in {OK, "KeyError"}
    /\ last.err = "KeyError" => (last.op = "remove" /\ last.res = "absent")

\* a removal that went on below the root and left two levels of internal nodes
NoInternalErrorWitness ==
    /\ last.op = "discard" /\ last.res = "removed" /\ last.err = OK
    /\ height_of(root) = 2 /\ Len(root.keys) = 1

\* A leaf with the given keys
LeafOf(keys) == [leaf |-> TRUE, keys |-> keys, children |-> <<>>]

\* C11: with degree 2, adding 1, 2, 3, 4 in this order to an empty set splits
\* the root for the first time at 4 and gives root key 2 over the leaves [1]
\* and [3, 4]; going on with 5, 6, 7 gives root keys [2, 4] over the leaves
\* [1], [3], [5, 6, 7].
ScenarioOneToSeven ==
    (minkeys = 1 /\ maxkeys = 3) =>
        /\ (Len(history) <= 3 /\ history = SubSeq(<<1, 2, 3>>, 1, Len(history))) =>
               root = LeafOf(history)
        /\ history = <<1, 2, 3, 4>> =>
               root = [leaf |-> FALSE, keys |-> <<2>>,
                       children |-> <<LeafOf(<<1>>), LeafOf(<<3, 4>>)>>]
        /\ history = <<1, 2, 3, 4, 5, 6, 7>> =>
               root = [leaf |-> FALSE, keys |-> <<2, 4>>,
                       children |-> <<LeafOf(<<1>>), LeafOf(<<3>>), LeafOf(<<5, 6, 7>>)>>]

\* 1..7 were added in order with degree 2
ScenarioOneToSevenWitness ==
    /\ minkeys = 1 /\ history = <<1, 2, 3, 4, 5, 6, 7>>
    /\ size = 7 /\ height_of(root) = 1 /\ last.res = "inserted"

\* C12: the height grows only in add, only when the root met by add holds
\* maxkeys keys, and then by one, the new root having one key and two
\* children; an add that meets a root with fewer keys keeps the height, also
\* when it splits a child; no node is entered by add with maxkeys keys (the
\* assertion of the walk holds).
HeightGrowsOnlyByRootSplit ==
    LET before == height_of(call.node)
        after == height_of(root)
    IN  /\ after > before =>
              /\ call.method = "add"
              /\ Len(call.node.keys) = maxkeys
              /\ after = before + 1
              /\ Len(root.keys) = 1 /\ Len(root.children) = 2
        /\ call.method = "add" =>
              /\ Len(call.node.keys) # maxkeys => after = before
              /\ last.res # "assert" /\ last.err = OK

\* an add has split a full internal root: the tree got its second level of
\* internal nodes
HeightGrowsOnlyByRootSplitWitness ==
    /\ call.method = "add" /\ ~is_leaf(call.node) /\ Len(call.node.keys) = maxkeys
    /\ height_of(call.node) = 1 /\ height_of(root) = 2

\* s without its element x
Without(s, x) == SelectSeq(s, LAMBDA y : y # x)

\* C13: a remove or discard lowers the height by at most one, and only when
\* the root it met has one key over two children of minkeys keys each, whose
\* merge leaves the root without keys: the merged child, after the rest of
\* the removal, is then the root.  After a call an internal root has a key.
HeightShrinksOnlyByRootMerge ==
    LET before == height_of(call.node)
        after == height_of(root)
    IN  /\ call.method \in {"remove", "discard"} =>
              /\ after \in {before - 1, before}
              /\ after < before =>
                    LET m == merge_children(call.node, 0)
                        merged == At(m.node.children, 0)
                    IN  /\ Len(call.node.keys) = 1
                        /\ m.err = OK /\ Len(m.node.keys) = 0
                        /\ Len(merged.keys) = maxkeys
                        /\ is_leaf(root) = is_leaf(merged)
                        /\ InOrder(root) = Without(InOrder(merged), call.index)
                        /\ Len(root.keys) >= maxkeys - 1
        /\ ~is_leaf(root) => Len(root.keys) >= 1

\* a removal has merged the two internal children of the root and lowered the
\* tree from two levels of internal nodes to one
HeightShrinksOnlyByRootMergeWitness ==
    /\ call.method = "remove" /\ last.res = "removed"
    /\ height_of(call.node) = 2 /\ height_of(root) = 1

\* C14 as stated: a discard or failing remove of an absent key leaves the
\* tree as it was: the same root with the same keys and children throughout.
AbsentRemovalLeavesTree ==
    (call.method \in {"remove", "discard"} /\ last.res = "absent") =>
        /\ root = call.node
        /\ height_of(root) = height_of(call.node)

\* C14 amended: a discard or failing remove of an absent key leaves the size
\* and the in-order key sequence as they were and the tree valid; the descent
\* may rotate keys and merge nodes and may lower the height by one.
AbsentRemovalKeepsKeys ==
    (call.method \in {"remove", "discard"} /\ last.res = "absent") =>
        /\ InOrder(root) = InOrder(call.node)
        /\ size = Len(InOrder(call.node))
        /\ call.index \notin Members
        /\ height_of(root) \in {height_of(call.node) - 1, height_of(call.node)}
        /\ check_structure
        /\ last.err = IF call.method = "remove" THEN "KeyError" ELSE OK

\* a discard of an absent key has merged the children of the root and lowered
\* the tree
AbsentRemovalKeepsKeysWitness ==
    /\ call.method = "discard" /\ last.res = "absent"
    /\ root # call.node
    /\ height_of(root) = height_of(call.node) - 1

\* The set of the elements of s
Range(s) == {s[i] : i \in 1..Len(s)}

\* C15: ensure_child_remove(index), called on an internal node that is the
\* root or holds more than minkeys keys, returns a child of the node as it is
\* after the call, with more than minkeys keys, holding every key of the
\* original children[index]; the in-order keys of the node's subtree are
\* unchanged and the node loses at most one key.  So no removal enters a node
\* below the root that holds minkeys keys (the assertions of _remove,
\* remove_min and remove_max hold).
EnsureChildRemoveContract ==
    /\ call.method = "ensure_child_remove" =>
         LET node == call.node
             e == call.result
             child == At(node.children, call.index)
             returned == At(e.node.children, e.ret)
         IN  /\ e.err = OK
             /\ e.ret \in 0..(Len(e.node.children) - 1)
             /\ Len(returned.keys) >= minkeys + 1
             /\ Range(InOrder(child)) \subseteq Range(InOrder(returned))
             /\ InOrder(e.node) = InOrder(node)
             /\ Len(e.node.keys) \in {Len(node.keys) - 1, Len(node.keys)}
    /\ call.method = "_remove" => call.result.err = OK
    /\ last.err \in {OK, "KeyError"}

\* the child was internal and took a key and a child from its left sibling
EnsureChildRemoveContractWitness ==
    /\ call.method = "ensure_child_remove"
    /\ call.result.how = "rotate_left" /\ call.result.err = OK
    /\ ~is_leaf(At(call.node.children, call.index))

\* C16: when children[index] holds minkeys keys, ensure_child_remove takes
\* the first step that applies: a key from the left sibling if there is one
\* with more than minkeys keys, else a key from the right sibling if there is
\* one with more than minkeys keys, else the merge into the left sibling if
\* there is one, else the merge of the right sibling into the child.  It
\* merges only when no sibling has a key to spare, returns another node than
\* children[index] only after the merge into the left sibling, and changes
\* nothing when the child holds more than minkeys keys.
EnsureChildRemovePriority ==
    call.method = "ensure_child_remove" =>
        LET node == call.node
            index == call.index
            e == call.result
            child == At(node.children, index)
            left == At(node.children, index - 1)
            right == At(node.children, index + 1)
            returned == At(e.node.children, e.ret)
            leftSpare == index >= 1 /\ Len(left.keys) > minkeys
            rightSpare == index < Len(node.keys) /\ Len(right.keys) > minkeys
            Untouched == e.node = node /\ e.ret = index /\ e.same
            TookFromLeft ==
                /\ e.ret = index /\ e.same
                /\ Len(e.node.keys) = Len(node.keys)
                /\ returned.keys = <<At(node.keys, index - 1)>> \o child.keys
                /\ At(e.node.keys, index - 1) = At(left.keys, Len(left.keys) - 1)
                /\ At(e.node.children, index - 1).keys = Slice(left.keys, 0, Len(left.keys) - 1)
                /\ index < Len(node.keys) => At(e.node.children, index + 1) = right
            TookFromRight ==
                /\ e.ret = index /\ e.same
                /\ Len(e.node.keys) = Len(node.keys)
                /\ returned.keys = child.keys \o <<At(node.keys, index)>>
                /\ At(e.node.keys, index) = At(right.keys, 0)
                /\ At(e.node.children, index + 1).keys = Slice(right.keys, 1, Len(right.keys))
                /\ index >= 1 => At(e.node.children, index - 1) = left
            MergedIntoLeft ==
                /\ e.ret = index - 1 /\ ~e.same
                /\ Len(e.node.keys) = Len(node.keys) - 1
                /\ Len(e.node.children) = Len(node.children) - 1
                /\ returned.keys = left.keys \o <<At(node.keys, index - 1)>> \o child.keys
            MergedRightIntoChild ==
                /\ e.ret = index /\ e.same
                /\ Len(e.node.keys) = Len(node.keys) - 1
                /\ Len(e.node.children) = Len(node.children) - 1
                /\ returned.keys = child.keys \o <<At(node.keys, index)>> \o right.keys
        IN  /\ e.err = OK
            /\ IF Len(child.keys) > minkeys THEN Untouched /\ e.how = "none"
               ELSE IF leftSpare THEN TookFromLeft /\ e.how = "rotate_left"
               ELSE IF rightSpare THEN TookFromRight /\ e.how = "rotate_right"
               ELSE IF index >= 1 THEN MergedIntoLeft /\ e.how = "merge_left"
               ELSE MergedRightIntoChild /\ e.how = "merge_right"
            /\ Len(e.node.keys) < Len(node.keys) => ~leftSpare /\ ~rightSpare

\* the child had a left sibling without a key to spare and took a key from
\* its right sibling
EnsureChildRemovePriorityWitness ==
    /\ call.method = "ensure_child_remove"
    /\ call.index >= 1
    /\ Len(At(call.node.children, call.index).keys) = minkeys
    /\ Len(At(call.node.children, call.index - 1).keys) = minkeys
    /\ call.result.how = "rotate_right"

\* C17: when the removal finds the key at index i of an internal node: if
\* children[i] has more than minkeys keys, the key is replaced by the greatest
\* key of the left subtree, which leaves that subtree; else if children[i+1]
\* has more than minkeys keys, by the least key of the right subtree; else the
\* two children are merged, the key sits at index minkeys of the merged node
\* and is removed from there.  Each time the requested key alone leaves the
\* subtree and the call reports a removal (size goes down by one).
RemoveFoundInternal ==
    /\ size = Len(InOrder(root))
    /\ call.method = "_remove" =>
        LET node == call.node
            i == call.index
            key == At(node.keys, i)
            r == call.result
            left == At(node.children, i)
            right == At(node.children, i + 1)
            lefts == InOrder(left)
            rights == InOrder(right)
            m == merge_children(node, i)
            merged == At(m.node.children, i)
            collapsed == call.isroot /\ Len(node.keys) = 1
            rest == IF collapsed THEN r.node ELSE At(r.node.children, i)
        IN  /\ r.err = OK /\ r.removed
            /\ InOrder(r.node) = Without(InOrder(node), key)
            /\ IF Len(left.keys) > minkeys
               THEN /\ r.node.keys = SetAt(node.keys, i, lefts[Len(lefts)])
                    /\ InOrder(At(r.node.children, i)) = SubSeq(lefts, 1, Len(lefts) - 1)
                    /\ \A j \in 0..Len(node.keys) :
                           j # i => At(r.node.children, j) = At(node.children, j)
               ELSE IF Len(right.keys) > minkeys
               THEN /\ r.node.keys = SetAt(node.keys, i, rights[1])
                    /\ InOrder(At(r.node.children, i + 1)) = Tail(rights)
                    /\ \A j \in 0..Len(node.keys) :
                           j # i + 1 => At(r.node.children, j) = At(node.children, j)
               ELSE /\ m.err = OK
                    /\ merged.keys = left.keys \o <<key>> \o right.keys
                    /\ At(merged.keys, minkeys) = key
                    /\ collapsed \/ r.node.keys = RemoveAt(node.keys, i)
                    /\ InOrder(rest) = lefts \o rights
                    /\ is_leaf(rest) = is_leaf(left)

\* the key was at the root over two internal children of minkeys keys each:
\* they were merged and the removal went on inside the merged node
RemoveFoundInternalWitness ==
    /\ call.method = "_remove" /\ call.isroot /\ call.result.removed
    /\ height_of(call.node) = 2 /\ Len(call.node.keys) = 1
    /\ Len(At(call.node.children, call.index).keys) = minkeys
    /\ Len(At(call.node.children, call.index + 1).keys) = minkeys

\* C18: split() on a node of maxkeys keys promotes the key at index minkeys
\* and returns a right node of the same kind; the node and the right node then
\* hold minkeys keys each (and minkeys+1 children each if internal), and the
\* node's keys, the promoted key and the right node's keys are, in this order,
\* the keys before the split (the children likewise).  On any other node
\* split() raises and leaves the node as it was.
SplitContract ==
    call.method = "split" =>
        LET node == call.node
            sp == call.result
        IN  IF Len(node.keys) = maxkeys
            THEN /\ sp.err = OK
                 /\ sp.middlekey = At(node.keys, minkeys)
                 /\ is_leaf(sp.right) = is_leaf(node) /\ is_leaf(sp.left) = is_leaf(node)
                 /\ Len(sp.left.keys) = minkeys /\ Len(sp.right.keys) = minkeys
                 /\ ~is_leaf(node) => /\ Len(sp.left.children) = minkeys + 1
                                      /\ Len(sp.right.children) = minkeys + 1
                 /\ sp.left.keys \o <<sp.middlekey>> \o sp.right.keys = node.keys
                 /\ sp.left.children \o sp.right.children = node.children
            ELSE /\ sp.err = "RuntimeError"
                 /\ sp.left = node

\* a full internal node was split
SplitContractWitness ==
    /\ call.method = "split" /\ call.result.err = OK
    /\ ~is_leaf(call.node) /\ Len(call.node.keys) = maxkeys

\* C19: merge_children(index) on an internal node with keys whose
\* children[index] and children[index+1] hold minkeys keys each leaves
\* children[index] with maxkeys keys: its own, the separator keys[index], the
\* right sibling's (the children likewise); the node loses that key and the
\* right sibling, and the in-order keys of its subtree are unchanged.  On a
\* leaf, a node without keys, or children of other sizes, it raises and leaves
\* the node as it was.
MergeChildrenContract ==
    call.method = "merge_children" =>
        LET node == call.node
            index == call.index
            m == call.result
            left == At(node.children, index)
            right == At(node.children, index + 1)
            merged == At(m.node.children, index)
        IN  IF /\ ~is_leaf(node) /\ Len(node.keys) > 0
               /\ Len(left.keys) = minkeys /\ Len(right.keys) = minkeys
            THEN /\ m.err = OK
                 /\ Len(merged.keys) = maxkeys
                 /\ merged.keys = left.keys \o <<At(node.keys, index)>> \o right.keys
                 /\ merged.children = left.children \o right.children
                 /\ is_leaf(merged) = is_leaf(left)
                 /\ m.node.keys = RemoveAt(node.keys, index)
                 /\ m.node.children = SetAt(RemoveAt(node.children, index + 1), index, merged)
                 /\ InOrder(m.node) = InOrder(node)
            ELSE /\ m.err = "RuntimeError"
                 /\ m.node = node

\* two internal children were merged
MergeChildrenContractWitness ==
    /\ call.method = "merge_children" /\ call.result.err = OK
    /\ ~is_leaf(call.node) /\ ~is_leaf(At(call.node.children, call.index))
    /\ Len(At(call.result.node.children, call.index).children) = maxkeys + 1

\* t to the power h
RECURSIVE Power(_, _)
Power(t, h) == IF h = 0 THEN 1 ELSE t * Power(t, h - 1)

\* C20: with n >= 1 elements and degree t, the height h of the tree (edges
\* from the root to a leaf) satisfies n >= 2 * t^h - 1.
HeightBound ==
    size >= 1 => size >= 2 * Power(minkeys + 1, height_of(root)) - 1

\* the bound is met with equality by a tree with two levels of internal nodes
HeightBoundWitness ==
    /\ height_of(root) = 2 /\ minkeys = 1
    /\ size = 2 * Power(minkeys + 1, 2) - 1

====
